---- MODULE Spec2Model ----
(***************************************************************************)
(* Model of lib_manager::LibManager (src/src/LibManager.cpp, LibManager.h) *)
(* the registry of loaded libraries, its use counting, the notification of *)
(* peers on registration and the dynamic load entry point.                 *)
(*                                                                         *)
(* Every public method is one action; the method bodies are operators on   *)
(* an explicit map value so that a method calling another one (release ->  *)
(* unload, load -> add) is the composition the code performs.  The calls   *)
(* the manager makes on objects it does not own the code of (the library   *)
(* interface, the destroy function, the dynamic loader) are recorded, in   *)
(* order, in the `calls` field of the observation of the last operation.   *)
(* In Spec these callbacks do not call back into the manager.  A call and   *)
(* its return are two steps: the observation of a call is in `last` from   *)
(* the call step until the Return step.                                    *)
(*                                                                         *)
(* Specifications:                                                         *)
(*   Spec         the registry methods, called in any order;               *)
(*   SpecClear    clearLibraries and ~LibManager on every small map;       *)
(*   SpecResolve  the path resolution of loadLibrary in any surroundings;  *)
(*   SpecConfig   loadConfigFile on any small text and on long lines;      *)
(*   SpecClient   a client that loads from a configuration, counts its     *)
(*                acquires and releases, and has the manager report.       *)
(*   SpecCascade  destroy functions that release peers from inside         *)
(*                unloadLibrary, one nested call per step.                 *)
(***************************************************************************)
EXTENDS Integers, Sequences, FiniteSets, TLC

\* ---------------------------------------------------------------- bounds
\* number of LibInterface objects that exist over a run
NumInst == 4
\* cap on useCount reached through acquireLibrary / getAllLibraries
MaxUse == 2
\* longest value of the search-list variable, in characters
MaxListLen == 5
\* longest configuration text made of single characters
MaxTextLen == 4

\* ------------------------------------------------------------- constants
\* keys of libMap in the iteration order of std::map<std::string, ...>
NameSeq == <<"A", "B", "C">>
Names == {NameSeq[k] : k \in 1..Len(NameSeq)}
Instances == 1..NumInst
\* LibInterface* NULL
NULL == 0
\* Paths and the search list are std::strings taken apart by character:
\* they are sequences of one-character strings.
\* the path argument to addLibrary (its default, the empty string)
Paths == {<<>>}
\* the libPath argument to loadLibrary
LibPaths == {<<"p">>}
\* loadLibrary's decoration and list separator (the #else branch: Linux)
prefix == <<"l", "i", "b">>
suffix == <<".", "s", "o">>
sep == ":"
\* std::string::npos, for the 1-based positions used here
npos == 0
\* loadConfigFile: the size of the line buffer, and the characters it strips
maxChars == 255
whitespace == {" ", "\t", "\n", "\r"}

LIBMGR_NO_ERROR == "LIBMGR_NO_ERROR"
LIBMGR_ERR_NO_LIBRARY == "LIBMGR_ERR_NO_LIBRARY"
LIBMGR_ERR_LIBNAME_EXISTS == "LIBMGR_ERR_LIBNAME_EXISTS"
LIBMGR_ERR_NOT_ABLE_TO_LOAD == "LIBMGR_ERR_NOT_ABLE_TO_LOAD"
LIBMGR_ERR_LIB_IN_USE == "LIBMGR_ERR_LIB_IN_USE"

\* LibInterface::getLibName(): the name an instance reports for itself.
\* Instances i and i + Len(NameSeq) report the same name.
getLibName(i) == NameSeq[((i - 1) % Len(NameSeq)) + 1]

\* ------------------------------------------------------------ libStruct
\* libStruct(LibInterface *i): useCount starts at 1, destroy at NULL (FALSE)
libStruct(i) ==
    [libInterface |-> i, destroy |-> FALSE, useCount |-> 1,
     wasUnloaded |-> FALSE, path |-> <<>>]

\* ------------------------------------------------- std::map operations
EmptyMap == [k \in {} |-> libStruct(NULL)]
Find(m, n) == n \in DOMAIN m
Erase(m, n) == [k \in (DOMAIN m) \ {n} |-> m[k]]
Insert(m, n, r) == [k \in (DOMAIN m) \cup {n} |-> IF k = n THEN r ELSE m[k]]
\* keys from begin() to end()
Keys(m) == SelectSeq(NameSeq, LAMBDA n : n \in DOMAIN m)

\* ------------------------------------------------------ observed calls
\* one call the manager makes on a collaborator: the function, the instance
\* it is made on (or yields), its string argument, and whether it succeeded
Ev(fn, inst, arg, ok) ==
    [fn |-> fn, inst |-> inst, arg |-> arg, ok |-> ok, path |-> <<>>]
\* the call that opens the image at a file path
OpenEv(filepath, ok) ==
    [fn |-> "intern_loadLib", inst |-> NULL, arg |-> "", ok |-> ok,
     path |-> filepath]

\* the outcome of a method: the map it leaves, its return value (ret for an
\* ErrorNumber, handle for a LibInterface*), whether it threw
\* std::runtime_error, and the calls it made
Res(m, ret, handle, fault, calls) ==
    [map |-> m, ret |-> ret, handle |-> handle, fault |-> fault, calls |-> calls]

\* --------------------------------------------------- faulty variants
\* Deliberately wrong versions of the methods; the properties at the end
\* fail when one of them takes the place of the method it imitates.
\* unloadLibrary that runs the destroy function but forgets libMap.erase
UnloadLibraryKeepsRecord(m, libName) ==
    IF ~Find(m, libName)
    THEN Res(m, LIBMGR_ERR_NO_LIBRARY, NULL, FALSE, <<>>)
    ELSE LET theLib == m[libName] IN
         IF theLib.useCount < 0
         THEN Res(m, "", NULL, TRUE, <<>>)
         ELSE IF theLib.useCount = 0
         THEN Res(m, LIBMGR_NO_ERROR, NULL, FALSE,
                  IF theLib.destroy
                  THEN <<Ev("destroy", theLib.libInterface, libName, TRUE)>>
                  ELSE <<>>)
         ELSE Res(m, LIBMGR_ERR_LIB_IN_USE, NULL, FALSE, <<>>)

\* unloadLibrary without the useCount == 0 test (the pre-refcount semantics)
UnloadLibraryForced(m, libName) ==
    IF ~Find(m, libName)
    THEN Res(m, LIBMGR_ERR_NO_LIBRARY, NULL, FALSE, <<>>)
    ELSE Res(Erase(m, libName), LIBMGR_NO_ERROR, NULL, FALSE,
             IF m[libName].destroy
             THEN <<Ev("destroy", m[libName].libInterface, libName, TRUE)>>
             ELSE <<>>)

\* ----------------------------------------------------- unloadLibrary
UnloadLibrary(m, libName) ==
    IF ~Find(m, libName)
    THEN Res(m, LIBMGR_ERR_NO_LIBRARY, NULL, FALSE, <<>>)
    ELSE LET theLib == m[libName] IN
         IF theLib.useCount < 0
         THEN Res(m, "", NULL, TRUE, <<>>)
         ELSE IF theLib.useCount = 0
         THEN Res(Erase(m, libName), LIBMGR_NO_ERROR, NULL, FALSE,
                  IF theLib.destroy
                  THEN <<Ev("destroy", theLib.libInterface, libName, TRUE)>>
                  ELSE <<>>)
         ELSE Res(m, LIBMGR_ERR_LIB_IN_USE, NULL, FALSE, <<>>)

\* releaseLibrary that decrements but never calls unloadLibrary
ReleaseLibraryNoUnload(m, libName) ==
    IF ~Find(m, libName)
    THEN Res(m, LIBMGR_ERR_NO_LIBRARY, NULL, FALSE, <<>>)
    ELSE LET dec == [m EXCEPT ![libName].useCount = @ - 1] IN
         IF dec[libName].useCount < 0
         THEN Res(dec, "", NULL, TRUE, <<>>)
         ELSE Res(dec, LIBMGR_NO_ERROR, NULL, FALSE, <<>>)

\* releaseLibrary without the find() test: libMap[libName] then creates a
\* default libStruct (useCount 0) and decrements it
ReleaseLibraryNoFind(m, libName) ==
    LET mm == IF Find(m, libName) THEN m
              ELSE Insert(m, libName, [libStruct(NULL) EXCEPT !.useCount = 0])
        dec == [mm EXCEPT ![libName].useCount = @ - 1]
    IN  IF dec[libName].useCount < 0
        THEN Res(dec, "", NULL, TRUE, <<>>)
        ELSE IF dec[libName].useCount = 0
        THEN LET u == UnloadLibrary(dec, libName) IN
             Res(u.map, IF u.fault THEN "" ELSE LIBMGR_NO_ERROR, NULL,
                 u.fault, u.calls)
        ELSE Res(dec, LIBMGR_NO_ERROR, NULL, FALSE, <<>>)

\* ----------------------------------------------------- releaseLibrary
ReleaseLibrary(m, libName) ==
    IF ~Find(m, libName)
    THEN Res(m, LIBMGR_ERR_NO_LIBRARY, NULL, FALSE, <<>>)
    ELSE LET dec == [m EXCEPT ![libName].useCount = @ - 1] IN
         IF dec[libName].useCount < 0
         THEN Res(dec, "", NULL, TRUE, <<>>)
         ELSE IF dec[libName].useCount = 0
         THEN LET u == UnloadLibrary(dec, libName) IN
              Res(u.map, IF u.fault THEN "" ELSE LIBMGR_NO_ERROR, NULL,
                  u.fault, u.calls)
         ELSE Res(dec, LIBMGR_NO_ERROR, NULL, FALSE, <<>>)

\* ------------------------- unloadLibrary around a running destroy function
\* faulty variant: the record is erased before the destroy function is called
UnloadBeginErasing(m, libName) == Erase(m, libName)

\* unloadLibrary from its entry to the call theLib->destroy(...) of line
\* 309: the map is read, not written
UnloadBegin(m, libName) == m

\* unloadLibrary once the destroy function has returned: libMap.erase(libName)
UnloadEnd(m, libName) == Erase(m, libName)

\* this releaseLibrary(libName) gets as far as calling a destroy function
Enters(m, libName) ==
    /\ Find(m, libName)
    /\ m[libName].useCount = 1
    /\ m[libName].destroy

\* releaseLibrary up to the point where it returns or, when it enters
\* unloadLibrary for a record with a destroy function, up to the call of
\* that function
ReleaseEnter(m, libName) ==
    IF ~Find(m, libName)
    THEN Res(m, LIBMGR_ERR_NO_LIBRARY, NULL, FALSE, <<>>)
    ELSE LET dec == [m EXCEPT ![libName].useCount = @ - 1] IN
         IF dec[libName].useCount < 0
         THEN Res(dec, "", NULL, TRUE, <<>>)
         ELSE IF dec[libName].useCount = 0
         THEN IF dec[libName].destroy
              THEN Res(UnloadBegin(dec, libName), LIBMGR_NO_ERROR, NULL, FALSE,
                       <<Ev("destroy", dec[libName].libInterface, libName, TRUE)>>)
              ELSE Res(UnloadEnd(UnloadBegin(dec, libName), libName),
                       LIBMGR_NO_ERROR, NULL, FALSE, <<>>)
         ELSE Res(dec, LIBMGR_NO_ERROR, NULL, FALSE, <<>>)

\* one running destroy function: the library being unloaded, its object,
\* and the peers the object has yet to release
Frame(name, inst, todo) == [name |-> name, inst |-> inst, todo |-> todo]

\* a releaseLibrary(libName) call made from inside a destroy function
ReleaseEv(libName, ok) == Ev("releaseLibrary", NULL, libName, ok)

\* acquireLibrary that hands out the interface without counting the use
AcquireLibraryNoCount(m, libName) ==
    IF ~Find(m, libName)
    THEN Res(m, "", NULL, FALSE, <<>>)
    ELSE Res(m, "", m[libName].libInterface, FALSE, <<>>)

\* ----------------------------------------------------- acquireLibrary
AcquireLibrary(m, libName) ==
    IF ~Find(m, libName)
    THEN Res(m, "", NULL, FALSE, <<>>)
    ELSE Res([m EXCEPT ![libName].useCount = @ + 1], "",
             m[libName].libInterface, FALSE, <<>>)

\* the notification loop without the it->first != name test
NotifyEveryone(m, name) ==
    [j \in 1..Len(Keys(m)) |->
        Ev("newLibLoaded", m[Keys(m)[j]].libInterface, name, TRUE)]

\* --------------------------------------------------------- addLibrary
\* newLibLoaded(name) on every record but the new one, in map order
Notify(m, name) ==
    LET others == SelectSeq(Keys(m), LAMBDA k : k # name) IN
    [j \in 1..Len(others) |->
        Ev("newLibLoaded", m[others[j]].libInterface, name, TRUE)]

\* addLibrary that assigns libMap[name] = newLib without the find() test
AddLibraryOverwrite(m, lib, destroyFunc, path) ==
    IF lib = NULL
    THEN Res(m, LIBMGR_ERR_NO_LIBRARY, NULL, FALSE, <<>>)
    ELSE LET newLib == [libStruct(lib) EXCEPT !.destroy = destroyFunc,
                                              !.path = path]
             name == getLibName(lib)
             ins == Insert(m, name, newLib)
         IN  Res(ins, LIBMGR_NO_ERROR, NULL, FALSE,
                 <<Ev("getLibName", lib, "", TRUE),
                   Ev("createModuleInfo", lib, "", TRUE)>> \o Notify(ins, name))

AddLibrary(m, lib, destroyFunc, path) ==
    IF lib = NULL
    THEN Res(m, LIBMGR_ERR_NO_LIBRARY, NULL, FALSE, <<>>)
    ELSE LET newLib == [libStruct(lib) EXCEPT !.destroy = destroyFunc,
                                              !.path = path]
             name == getLibName(lib)
             pre == <<Ev("getLibName", lib, "", TRUE),
                      Ev("createModuleInfo", lib, "", TRUE)>>
         IN  IF ~Find(m, name)
             THEN LET ins == Insert(m, name, newLib) IN
                  Res(ins, LIBMGR_NO_ERROR, NULL, FALSE,
                      pre \o Notify(ins, name))
             ELSE Res(m, LIBMGR_ERR_LIBNAME_EXISTS, NULL, FALSE, pre)

\* -------------------------------------------------------- loadLibrary
\* What loadLibrary reads from its surroundings: the search-list variable
\* (isSet FALSE when getenv returns NULL) and the set of paths fopen can open.
Env(isSet, value, files) == [isSet |-> isSet, value |-> value, files |-> files]
\* surroundings without a search list and without files
NoEnv == Env(FALSE, <<>>, {})

\* std::string::find(sep, pos): the first position >= pos holding sep
FindSep(str, pos) ==
    LET hits == {j \in pos..Len(str) : str[j] = sep} IN
    IF hits = {} THEN npos ELSE CHOOSE j \in hits : \A h \in hits : j <= h

\* faulty variant: the loop without the break of line 206, which goes on
\* through the list with the path it has found
RECURSIVE SearchListNoBreak(_, _, _, _)
SearchListNoBreak(lib_path_s, actual_path_pos, filepath, files) ==
    LET next_path_pos == FindSep(lib_path_s, actual_path_pos)
        actual_path ==
            SubSeq(lib_path_s, actual_path_pos,
                   IF next_path_pos # npos THEN next_path_pos - 1
                   ELSE Len(lib_path_s))
        actual_lib_path == actual_path \o <<"/">> \o filepath
        found == IF actual_lib_path \in files THEN actual_lib_path ELSE filepath
    IN  IF next_path_pos = npos
        THEN [filepath |-> found, tested |-> <<actual_lib_path>>]
        ELSE LET rest == SearchListNoBreak(lib_path_s, next_path_pos + 1,
                                           found, files)
             IN  [filepath |-> rest.filepath,
                  tested |-> <<actual_lib_path>> \o rest.tested]

\* the while loop of lines 194-209 from actual_path_pos on: the first
\* directory of the list that holds the decorated name, else the decorated
\* name itself; tested are the paths the loop tried to fopen, in order
RECURSIVE SearchList(_, _, _, _)
SearchList(lib_path_s, actual_path_pos, filepath, files) ==
    LET next_path_pos == FindSep(lib_path_s, actual_path_pos)
        actual_path ==
            SubSeq(lib_path_s, actual_path_pos,
                   IF next_path_pos # npos THEN next_path_pos - 1
                   ELSE Len(lib_path_s))
        actual_lib_path == actual_path \o <<"/">> \o filepath
    IN  IF actual_lib_path \in files
        THEN [filepath |-> actual_lib_path, tested |-> <<actual_lib_path>>]
        ELSE IF next_path_pos = npos
        THEN [filepath |-> filepath, tested |-> <<actual_lib_path>>]
        ELSE LET rest == SearchList(lib_path_s, next_path_pos + 1,
                                    filepath, files)
             IN  [filepath |-> rest.filepath,
                  tested |-> <<actual_lib_path>> \o rest.tested]

\* lines 182-215: the file path handed to intern_loadLib
ResolvePath(libPath, env) ==
    IF libPath \in env.files THEN libPath
    ELSE LET filepath == prefix \o libPath \o suffix IN
         IF env.isSet THEN SearchList(env.value, 1, filepath, env.files).filepath
         ELSE filepath

\* lines 182-215: the paths given to fopen on the way, in order
TestedFiles(libPath, env) ==
    <<libPath>> \o
    (IF libPath \notin env.files /\ env.isSet
     THEN SearchList(env.value, 1, prefix \o libPath \o suffix, env.files).tested
     ELSE <<>>)

\* What the dynamic loader can answer for a resolved file: whether it opens,
\* which of the three entry points it exports, and the instance its factory
\* returns (NULL when the factory yields none).
Image(opens, d, c, cc, product) ==
    [opens |-> opens, destroy_c |-> d, create_c |-> c,
     config_create_c |-> cc, product |-> product]

\* The surroundings and images tried by loadLibrary calls, as pairs: what
\* the image holds does not depend on how its path was found.
\*  - the file at the literal path, holding destroy_c and one factory;
\*  - the decorated file in the second directory of a search list of two,
\*    without destroy_c, or with all three entry points;
\*  - no file and no search list (the decorated name is handed on), which
\*    the loader fails to open, or finds itself with all three entry points.
Worlds(libPath, products) ==
    LET literal == Env(FALSE, <<>>, {libPath})
        listed  == Env(TRUE, <<"a", sep, "b">>,
                       {<<"b", "/">> \o prefix \o libPath \o suffix})
        nowhere == Env(FALSE, <<>>, {})
    IN  {[env |-> literal, img |-> Image(TRUE, TRUE, c, ~c, p)] :
            c \in BOOLEAN, p \in products}
        \cup {[env |-> listed, img |-> Image(TRUE, FALSE, TRUE, TRUE, NULL)]}
        \cup {[env |-> listed, img |-> Image(TRUE, TRUE, TRUE, TRUE, p)] :
                 p \in products}
        \cup {[env |-> nowhere, img |-> Image(FALSE, TRUE, TRUE, TRUE, NULL)]}
        \cup {[env |-> nowhere, img |-> Image(TRUE, TRUE, TRUE, TRUE, p)] :
                 p \in products}

\* the construction without the if(destroyFunc) test around the factories
ConstructWithoutDestroy(filepath, config, img) ==
    LET open == <<OpenEv(filepath, img.opens)>>
        symD == <<Ev("getFunc", NULL, "destroy_c", img.destroy_c)>>
        fac  == IF config THEN "config_create_c" ELSE "create_c"
        has  == IF config THEN img.config_create_c ELSE img.create_c
        symF == <<Ev("getFunc", NULL, fac, has)>>
        call == <<Ev(fac, img.product, "", img.product # NULL)>>
    IN  IF ~img.opens THEN [interface |-> NULL, calls |-> open]
        ELSE IF ~has THEN [interface |-> NULL, calls |-> open \o symD \o symF]
        ELSE [interface |-> img.product, calls |-> open \o symD \o symF \o call]

\* lines 218-240: the loader calls made and the interface obtained
Construct(filepath, config, img) ==
    LET open == <<OpenEv(filepath, img.opens)>>
        symD == <<Ev("getFunc", NULL, "destroy_c", img.destroy_c)>>
        fac  == IF config THEN "config_create_c" ELSE "create_c"
        has  == IF config THEN img.config_create_c ELSE img.create_c
        symF == <<Ev("getFunc", NULL, fac, has)>>
        call == <<Ev(fac, img.product, "", img.product # NULL)>>
    IN  IF ~img.opens THEN [interface |-> NULL, calls |-> open]
        ELSE IF ~img.destroy_c THEN [interface |-> NULL, calls |-> open \o symD]
        ELSE IF ~has THEN [interface |-> NULL, calls |-> open \o symD \o symF]
        ELSE [interface |-> img.product, calls |-> open \o symD \o symF \o call]

\* env is what the path resolution sees; img is what the loader answers for
\* the resolved file path
LoadLibrary(m, libPath, config, env, img) ==
    LET c == Construct(ResolvePath(libPath, env), config, img) IN
    IF c.interface = NULL
    THEN Res(m, LIBMGR_ERR_NOT_ABLE_TO_LOAD, NULL, FALSE, c.calls)
    ELSE LET a == AddLibrary(m, c.interface, TRUE, libPath) IN
         Res(a.map, LIBMGR_NO_ERROR, NULL, FALSE,
             c.calls \o a.calls \o
             (IF a.ret # LIBMGR_NO_ERROR
              THEN <<Ev("destroy", c.interface, "", TRUE)>>
              ELSE <<>>))

\* ----------------------------------------------------- loadConfigFile
\* fgets(plugin_chars, maxChars, plugin_config) with the file position at
\* pos <= Len(text): the characters up to and including the next newline,
\* but no more than maxChars - 1 of them
Fgets(text, pos) ==
    LET stops == {j \in pos..Len(text) :
                     \/ text[j] = "\n"
                     \/ j = pos + maxChars - 2
                     \/ j = Len(text)}
    IN  SubSeq(text, pos, CHOOSE j \in stops : \A h \in stops : j <= h)

\* the successive results of fgets until it returns NULL at the end of file
RECURSIVE ReadAll(_, _)
ReadAll(text, pos) ==
    IF pos > Len(text) THEN <<>>
    ELSE LET plugin_chars == Fgets(text, pos) IN
         <<plugin_chars>> \o ReadAll(text, pos + Len(plugin_chars))

\* lines 342-347: find_first_not_of / find_last_not_of and substr; the
\* empty string stands for the lines the loop skips with continue
Strip(plugin_path) ==
    LET keep == {j \in 1..Len(plugin_path) : plugin_path[j] \notin whitespace}
        pos1 == CHOOSE j \in keep : \A h \in keep : j <= h
        pos2 == CHOOSE j \in keep : \A h \in keep : j >= h
    IN  IF keep = {} THEN <<>> ELSE SubSeq(plugin_path, pos1, pos2)

\* the plugins a configuration refers to: plugins maps a library path to
\* the name of the library its image creates; other paths do not open.
\* The factory returns an object nobody has yet, one of spare that it has
\* not returned before (none: NULL).
Product(name, spare, used) ==
    LET free == {i \in spare : getLibName(i) = name /\ i \notin used}
    IN  IF free = {} THEN NULL
        ELSE CHOOSE i \in free : \A j \in free : i <= j

ImageAt(plugins, libPath, spare, used) ==
    IF libPath \in DOMAIN plugins
    THEN Image(TRUE, TRUE, TRUE, TRUE, Product(plugins[libPath], spare, used))
    ELSE Image(FALSE, FALSE, FALSE, FALSE, NULL)

\* the call loadLibrary(plugin_path) of line 350
LoadEv(plugin_path, ok) ==
    [fn |-> "loadLibrary", inst |-> NULL, arg |-> "", ok |-> ok,
     path |-> plugin_path]

\* the loop of lines 339-352 over what fgets returned
RECURSIVE LoadEach(_, _, _, _, _)
LoadEach(m, reads, plugins, spare, used) ==
    IF reads = <<>> THEN Res(m, "", NULL, FALSE, <<>>)
    ELSE LET plugin_path == Strip(Head(reads)) IN
         IF plugin_path = <<>> \/ plugin_path[1] = "#"
         THEN LoadEach(m, Tail(reads), plugins, spare, used)
         ELSE LET img == ImageAt(plugins, plugin_path, spare, used)
                  r == LoadLibrary(m, plugin_path, FALSE, NoEnv, img)
                  rest == LoadEach(r.map, Tail(reads), plugins, spare,
                                   used \cup {img.product})
              IN  Res(rest.map, "", NULL, FALSE,
                      <<LoadEv(plugin_path, r.ret = LIBMGR_NO_ERROR)>>
                          \o r.calls \o rest.calls)

\* opens: fopen(config_file, "r") succeeds; text: what the file holds
LoadConfigFile(m, opens, text, plugins, spare) ==
    IF ~opens THEN Res(m, "", NULL, FALSE, <<>>)
    ELSE LoadEach(m, ReadAll(text, 1), plugins, spare, {})

\* ----------------------------------------------------- clearLibraries
\* faulty variant: empties the map regardless of the use counts
RECURSIVE ClearLibrariesAll(_)
ClearLibrariesAll(m) ==
    IF Keys(m) = <<>>
    THEN Res(m, "", NULL, FALSE, <<>>)
    ELSE LET k == Keys(m)[1]
             rest == ClearLibrariesAll(Erase(m, k))
         IN  Res(rest.map, "", NULL, FALSE,
                 (IF m[k].destroy
                  THEN <<Ev("destroy", m[k].libInterface, k, TRUE)>>
                  ELSE <<>>) \o rest.calls)

\* the loop of lines 99-113: as long as some record has useCount 0, the
\* first such record in map order is destroyed and erased
RECURSIVE ClearLibraries(_)
ClearLibraries(m) ==
    LET zero == SelectSeq(Keys(m), LAMBDA k : m[k].useCount = 0) IN
    IF zero = <<>>
    THEN Res(m, "", NULL, FALSE, <<>>)
    ELSE LET k == zero[1]
             rest == ClearLibraries(Erase(m, k))
         IN  Res(rest.map, "", NULL, FALSE,
                 (IF m[k].destroy
                  THEN <<Ev("destroy", m[k].libInterface, k, TRUE)>>
                  ELSE <<>>) \o rest.calls)

\* ------------------------------- getAllLibraries / getAllLibraryNames
\* an element appended to a result list, or a line of the leak report
Item(name, inst, count) == [name |-> name, inst |-> inst, count |-> count]

\* faulty variant: hands out the libraries without counting the references
GetAllLibrariesBorrowed(m) ==
    [map |-> m,
     list |-> [j \in 1..Len(Keys(m)) |->
                  Item("", m[Keys(m)[j]].libInterface, 0)]]

GetAllLibraries(m) ==
    [map |-> [k \in DOMAIN m |-> [m[k] EXCEPT !.useCount = @ + 1]],
     list |-> [j \in 1..Len(Keys(m)) |->
                  Item("", m[Keys(m)[j]].libInterface, 0)]]

GetAllLibraryNames(m) ==
    [map |-> m,
     list |-> [j \in 1..Len(Keys(m)) |-> Item(Keys(m)[j], NULL, 0)]]

\* ------------------------------------------------ getLibraryInfo / dumpTo
\* the LibInfo returned (name and references; a default LibInfo for a name
\* that is not in the map) and the calls made on the library
GetLibraryInfo(m, libName) ==
    IF Find(m, libName)
    THEN [info |-> Item(libName, NULL, m[libName].useCount),
          calls |-> <<Ev("getModuleInfo", m[libName].libInterface, "", TRUE),
                      Ev("getLibVersion", m[libName].libInterface, "", TRUE)>>]
    ELSE [info |-> Item("", NULL, 0), calls |-> <<>>]

\* the name under which the report lists the C++ runtime (lines 45-55: it
\* depends on the compiler)
stdlibInfo == "stdlibInfo"

\* one fprintf or fclose on the FILE* of dumpTo; ok: the FILE* is valid
FileEv(fn, arg, ok) == Ev(fn, NULL, arg, ok)

\* the body of dumpTo from line 415 on, for a FILE* that is valid or not:
\* the calls made, and the <module> entries written
RECURSIVE DumpModules(_, _, _)
DumpModules(m, names, ok) ==
    IF names = <<>> THEN [calls |-> <<>>, list |-> <<>>]
    ELSE LET g == GetLibraryInfo(m, Head(names).name)
             rest == DumpModules(m, Tail(names), ok)
         IN  [calls |-> g.calls \o <<FileEv("fprintf", g.info.name, ok)>>
                            \o rest.calls,
              list |-> <<Item(g.info.name, NULL, 0)>> \o rest.list]

\* opens: fopen(filepath, "w") succeeds.  The result of fopen is not
\* tested: when it is NULL, the fprintf of line 415 is passed a null
\* FILE*, which is undefined behaviour.  crash tells its outcome: the
\* process is stopped there, or the calls on the null FILE* come back
\* without effect and dumpTo runs to its end, with nothing written.
DumpTo(m, opens, crash) ==
    LET mods == DumpModules(m, GetAllLibraryNames(m).list, opens)
        head == <<FileEv("fopen", "", opens),
                  FileEv("fprintf", "<modules>", opens)>>
    IN  IF ~opens /\ crash
        THEN [map |-> m, stopped |-> TRUE, list |-> <<>>, calls |-> head]
        ELSE [map |-> m, stopped |-> FALSE,
              list |-> IF opens
                       THEN mods.list \o <<Item(stdlibInfo, NULL, 0)>>
                       ELSE <<>>,
              calls |-> head \o mods.calls \o
                        <<FileEv("fprintf", stdlibInfo, opens),
                          FileEv("fprintf", "</modules>", opens),
                          FileEv("fclose", "", opens)>>]

\* -------------------------------------------------------- ~LibManager
\* clearLibraries(), then one report line per record that remains
Destructor(m) ==
    LET c == ClearLibraries(m) IN
    [map |-> c.map, calls |-> c.calls,
     list |-> [j \in 1..Len(Keys(c.map)) |->
                  Item(Keys(c.map)[j], NULL, c.map[Keys(c.map)[j]].useCount)]]

\* ================================================================ state
VARIABLES
    libMap,        \* LibManager::libMap
    constructed,   \* the LibManager exists (between LibManager() and ~LibManager())
    destroyCalls,  \* per instance: how often a destroyLib function was run on it
    last,          \* observation of the call that has just been made, until
                   \* its caller has taken note of it (NoOp otherwise)
    last2,         \* observation of the call before it, kept when the two
                   \* are consecutive acquire/release/unload calls on one name
    tally,         \* per library name: how many loads, acquires and releases
                   \* a client that keeps count of its own calls has made
    acquired,      \* per library name: the peers the library has acquired
                   \* from inside, through its pointer to the manager, and
                   \* will release in its destroy function
    unloading      \* the unloadLibrary calls whose destroy function is
                   \* running, the innermost last: the library, its object
                   \* and the peers it has yet to release

vars == <<libMap, constructed, destroyCalls, last, last2, tally,
          acquired, unloading>>

\* libraries that have acquired nothing
NoneAcquired == [n \in Names |-> {}]

\* a client that keeps no count
NoTally == [n \in Names |-> [load |-> 0, acq |-> 0, rel |-> 0]]

\* the observation of one operation: its name and arguments, the map before
\* it, the surroundings it read (loadLibrary only), the text of the file it
\* read (loadConfigFile only), and what it returned, threw and called
Obs(op, name, path, inst, flag, pre, r, list) ==
    [op |-> op, name |-> name, path |-> path, inst |-> inst, flag |-> flag,
     pre |-> pre, env |-> NoEnv, text |-> <<>>,
     ret |-> r.ret, handle |-> r.handle, fault |-> r.fault, calls |-> r.calls,
     list |-> list]

NoOp == Obs("none", "", <<>>, NULL, FALSE, EmptyMap,
            Res(EmptyMap, "", NULL, FALSE, <<>>), <<>>)

\* destroy calls made on instance i among the calls of one operation
Destroys(calls, i) ==
    Cardinality({j \in 1..Len(calls) : calls[j].fn = "destroy" /\ calls[j].inst = i})

\* an instance the caller may still pass around: no destroyLib has run on it
Live(i) == destroyCalls[i] = 0
\* the instance is held by some record of the map
Held(m, i) == \E k \in DOMAIN m : m[k].libInterface = i
\* the instances a factory can return as new objects: per name the first
\* instance that is live and not in the map (the others are alike)
Fresh(m) ==
    LET free == {i \in Instances : Live(i) /\ ~Held(m, i)} IN
    {i \in free : \A j \in free : getLibName(j) = getLibName(i) => i <= j}

\* two consecutive calls on the same library name, the first an acquire or
\* a release, the second an acquire, a release or an unload
Paired(prev, cur) ==
    /\ prev.op \in {"acquireLibrary", "releaseLibrary"}
    /\ cur.op \in {"acquireLibrary", "releaseLibrary", "unloadLibrary"}
    /\ prev.name = cur.name

\* a call can be made: the manager exists and no call is in progress
\* (the class does no locking: its methods are called one at a time)
Ready == constructed /\ last.op = "none"

\* the bookkeeping every operation shares: install the map, count the
\* destroy calls, record the observation; the call is over when it
\* returns, no destroy function is left running
Book(m, calls, obs) ==
    /\ libMap' = m
    /\ destroyCalls' = [i \in Instances |-> destroyCalls[i] + Destroys(calls, i)]
    /\ last' = obs
    /\ last2' = IF Paired(last2, obs) THEN last2 ELSE NoOp
    /\ UNCHANGED <<acquired, unloading>>

\* the same for a call of a client that keeps no count of its calls
Finish(m, calls, obs) ==
    /\ Book(m, calls, obs)
    /\ tally' = tally

\* LibManager::LibManager(): an empty map
Init ==
    /\ libMap = EmptyMap
    /\ constructed = TRUE
    /\ destroyCalls = [i \in Instances |-> 0]
    /\ last = NoOp
    /\ last2 = NoOp
    /\ tally = NoTally
    /\ acquired = NoneAcquired
    /\ unloading = <<>>

\* the instances a factory can still return as new objects
Spare == {i \in Instances : Live(i) /\ ~Held(libMap, i)}

\* the observation of loadConfigFile(config_file) where the file opens or
\* not and holds text
ConfigObs(opens, text, r) ==
    [Obs("loadConfigFile", "", <<>>, NULL, opens, libMap, r, <<>>)
        EXCEPT !.text = IF opens THEN text ELSE <<>>]

\* a configuration of two lines, the libraries its two paths hold, and
\* their names
ConfigOfTwo == <<"x", "\n", "y", "\n">>
PluginsOfTwo ==
    [p \in {<<"x">>, <<"y">>} |-> IF p = <<"x">> THEN NameSeq[1] ELSE NameSeq[2]]
NamesOfTwo == {NameSeq[1], NameSeq[2]}

\* -------------------------------------------------------------- actions
AddLibraryCall ==
    /\ Ready
    /\ \E lib \in {NULL} \cup {i \in Instances : Live(i)},
          destroyFunc \in BOOLEAN, path \in Paths :
          LET r == AddLibrary(libMap, lib, destroyFunc, path) IN
          /\ constructed' = constructed
          /\ Finish(r.map, r.calls,
                    Obs("addLibrary", "", path, lib, destroyFunc, libMap, r, <<>>))

LoadLibraryCall ==
    /\ Ready
    /\ \E libPath \in LibPaths, config \in BOOLEAN :
       \E w \in Worlds(libPath, {NULL} \cup Fresh(libMap)) :
          LET r == LoadLibrary(libMap, libPath, config, w.env, w.img) IN
          /\ constructed' = constructed
          /\ Finish(r.map, r.calls,
                    [Obs("loadLibrary", "", libPath, NULL, config, libMap, r, <<>>)
                        EXCEPT !.env = w.env])

AcquireLibraryCall ==
    /\ Ready
    /\ \E libName \in Names :
          /\ Find(libMap, libName) => libMap[libName].useCount < MaxUse
          /\ LET r == AcquireLibrary(libMap, libName) IN
             /\ constructed' = constructed
             /\ Finish(r.map, r.calls,
                       Obs("acquireLibrary", libName, <<>>, NULL, FALSE, libMap, r, <<>>))

ReleaseLibraryCall ==
    /\ Ready
    /\ \E libName \in Names :
          LET r == ReleaseLibrary(libMap, libName) IN
          /\ constructed' = constructed
          /\ Finish(r.map, r.calls,
                    Obs("releaseLibrary", libName, <<>>, NULL, FALSE, libMap, r, <<>>))

UnloadLibraryCall ==
    /\ Ready
    /\ \E libName \in Names :
          LET r == UnloadLibrary(libMap, libName) IN
          /\ constructed' = constructed
          /\ Finish(r.map, r.calls,
                    Obs("unloadLibrary", libName, <<>>, NULL, FALSE, libMap, r, <<>>))

ClearLibrariesCall ==
    /\ Ready
    /\ LET r == ClearLibraries(libMap) IN
       /\ constructed' = constructed
       /\ Finish(r.map, r.calls,
                 Obs("clearLibraries", "", <<>>, NULL, FALSE, libMap, r, <<>>))

GetAllLibrariesCall ==
    /\ Ready
    /\ \A k \in DOMAIN libMap : libMap[k].useCount < MaxUse
    /\ LET g == GetAllLibraries(libMap) IN
       /\ constructed' = constructed
       /\ Finish(g.map, <<>>,
                 Obs("getAllLibraries", "", <<>>, NULL, FALSE, libMap,
                     Res(g.map, "", NULL, FALSE, <<>>), g.list))

GetAllLibraryNamesCall ==
    /\ Ready
    /\ LET g == GetAllLibraryNames(libMap) IN
       /\ constructed' = constructed
       /\ Finish(g.map, <<>>,
                 Obs("getAllLibraryNames", "", <<>>, NULL, FALSE, libMap,
                     Res(g.map, "", NULL, FALSE, <<>>), g.list))

GetLibraryInfoCall ==
    /\ Ready
    /\ \E libName \in Names :
          LET g == GetLibraryInfo(libMap, libName) IN
          /\ constructed' = constructed
          /\ Finish(libMap, g.calls,
                    Obs("getLibraryInfo", libName, <<>>, NULL, FALSE, libMap,
                        Res(libMap, "", NULL, FALSE, g.calls), <<g.info>>))

\* what the observation of dumpTo holds in place of a return value when the
\* process did not survive the call
STOPPED == "stopped"

\* a process stopped by the null FILE* is gone, and its manager with it
DumpToCall ==
    /\ Ready
    /\ \E opens \in BOOLEAN, crash \in BOOLEAN :
          LET d == DumpTo(libMap, opens, crash) IN
          /\ constructed' = ~d.stopped
          /\ Finish(d.map, d.calls,
                    Obs("dumpTo", "", <<>>, NULL, opens, libMap,
                        Res(d.map, IF d.stopped THEN STOPPED ELSE "", NULL,
                            FALSE, d.calls),
                        d.list))

DestructorCall ==
    /\ Ready
    /\ LET t == Destructor(libMap) IN
       /\ constructed' = FALSE
       /\ Finish(t.map, t.calls,
                 Obs("~LibManager", "", <<>>, NULL, FALSE, libMap,
                     Res(t.map, "", NULL, FALSE, t.calls), t.list))

\* The call returns: its caller takes note of the outcome.  An acquire that
\* handed out a library, and a release of a library's last reference, are
\* remembered for the call that follows.
Return ==
    /\ last.op # "none"
    /\ unloading = <<>>
    /\ last' = NoOp
    /\ last2' = IF \/ last.op = "acquireLibrary" /\ last.handle # NULL
                   \/ /\ last.op = "releaseLibrary"
                      /\ Find(last.pre, last.name)
                      /\ last.pre[last.name].useCount = 1
                THEN last ELSE NoOp
    /\ UNCHANGED <<libMap, constructed, destroyCalls, tally, acquired, unloading>>

Next ==
    \/ AddLibraryCall
    \/ LoadLibraryCall
    \/ AcquireLibraryCall
    \/ ReleaseLibraryCall
    \/ UnloadLibraryCall
    \/ ClearLibrariesCall
    \/ GetAllLibrariesCall
    \/ GetAllLibraryNamesCall
    \/ DestructorCall
    \/ Return

Spec == Init /\ [][Next]_vars

\* ------------------------------------- loadLibrary in any surroundings
\* loadLibrary called with every search list of up to MaxListLen characters
\* over two directory letters and the separator, set or unset, and every
\* choice of which of the files it may look for exist.  The image does not
\* open, so that the map stays empty.
SearchLists == UNION {[1..n -> {"a", "b", sep}] : n \in 0..MaxListLen}

FileChoices(libPath) ==
    {libPath} \cup
    {d \o <<"/">> \o prefix \o libPath \o suffix : d \in {<<>>, <<"a">>, <<"b">>}}

LoadLibraryAnywhere ==
    /\ Ready
    /\ \E libPath \in LibPaths, isSet \in BOOLEAN, value \in SearchLists :
       \E files \in SUBSET FileChoices(libPath) :
          LET env == Env(isSet, IF isSet THEN value ELSE <<>>, files)
              r == LoadLibrary(libMap, libPath, FALSE, env,
                               Image(FALSE, FALSE, FALSE, FALSE, NULL))
          IN  /\ constructed' = constructed
              /\ Finish(r.map, r.calls,
                        [Obs("loadLibrary", "", libPath, NULL, FALSE, libMap, r, <<>>)
                            EXCEPT !.env = env])

NextResolve ==
    \/ LoadLibraryAnywhere
    \/ Return

SpecResolve == Init /\ [][NextResolve]_vars

\* ------------------------------------------- loadConfigFile on any text
\* n times the character c
Run(c, n) == [j \in 1..n |-> c]

\* every text of up to MaxTextLen characters out of a letter, the comment
\* sign, the blank and the newline; and lines around the size of the line
\* buffer: maxChars - 2, maxChars - 1 and maxChars letters, ended or not by
\* a newline, or followed by a second line; a comment longer than the
\* buffer; a line with a blank where the buffer ends
ShortTexts == UNION {[1..n -> {"x", "#", " ", "\n"}] : n \in 0..MaxTextLen}
LongTexts ==
    {Run("x", n) \o tail :
        n \in {maxChars - 2, maxChars - 1, maxChars},
        tail \in {<<>>, <<"\n">>, <<"\n", "x">>}}
    \cup {<<"#">> \o Run("x", maxChars) \o <<"\n">>,
          Run("x", maxChars - 2) \o <<" ", "x", "\n">>}
ConfigTexts == ShortTexts \cup LongTexts

\* no path can be loaded, or the path "x" holds the library named NameSeq[1]
NoPlugins == [p \in {} |-> ""]
PluginX == [p \in {<<"x">>} |-> NameSeq[1]]

LoadConfigFileAny ==
    /\ Ready
    /\ \E opens \in BOOLEAN, text \in ConfigTexts, plugins \in {NoPlugins, PluginX} :
          LET r == LoadConfigFile(libMap, opens, text, plugins, Spare) IN
          /\ constructed' = constructed
          /\ Finish(r.map, r.calls, ConfigObs(opens, text, r))

NextConfig ==
    \/ LoadConfigFileAny
    \/ Return

SpecConfig == Init /\ [][NextConfig]_vars

\* --------------------------------------------------- a counting client
\* A client loads the libraries of a configuration of two lines, then
\* acquires each of the two twice and, once it holds a library twice,
\* releases it three times; it counts its calls in tally and may at any
\* time ask for the information on a library or have the manager dumped,
\* to a file that opens or not.  The calls on the two libraries interleave
\* freely.
ClientLoads ==
    /\ Ready
    /\ tally = NoTally
    /\ LET r == LoadConfigFile(libMap, TRUE, ConfigOfTwo, PluginsOfTwo, Spare) IN
       /\ constructed' = constructed
       /\ Book(r.map, r.calls, ConfigObs(TRUE, ConfigOfTwo, r))
       /\ tally' = [n \in Names |->
                      [tally[n] EXCEPT !.load =
                          Cardinality({p \in DOMAIN PluginsOfTwo :
                                          PluginsOfTwo[p] = n})]]

ClientAcquires ==
    /\ Ready
    /\ \E libName \in NamesOfTwo :
          /\ tally[libName].load = 1
          /\ tally[libName].acq < 2
          /\ LET r == AcquireLibrary(libMap, libName) IN
             /\ constructed' = constructed
             /\ Book(r.map, r.calls,
                     Obs("acquireLibrary", libName, <<>>, NULL, FALSE, libMap, r, <<>>))
             /\ tally' = [tally EXCEPT ![libName].acq = @ + 1]

ClientReleases ==
    /\ Ready
    /\ \E libName \in NamesOfTwo :
          /\ tally[libName].acq = 2
          /\ tally[libName].rel < 3
          /\ LET r == ReleaseLibrary(libMap, libName) IN
             /\ constructed' = constructed
             /\ Book(r.map, r.calls,
                     Obs("releaseLibrary", libName, <<>>, NULL, FALSE, libMap, r, <<>>))
             /\ tally' = [tally EXCEPT ![libName].rel = @ + 1]

NextClient ==
    \/ ClientLoads
    \/ ClientAcquires
    \/ ClientReleases
    \/ GetLibraryInfoCall
    \/ DumpToCall
    \/ Return

SpecClient == Init /\ [][NextClient]_vars

\* --------------------------------------- destroy functions that call back
\* Libraries are registered with a destroy function; a library acquires
\* peers through its pointer to the manager and releases them, in any
\* order, in its destroy function, which runs inside unloadLibrary.  Every
\* releaseLibrary gives back a reference its caller holds: the client does
\* not release the references the libraries hold.
Holders(libName) == {h \in Names : libName \in acquired[h]}

CascadeRegister ==
    /\ Ready
    /\ \E lib \in Fresh(libMap) :
          LET r == AddLibrary(libMap, lib, TRUE, <<>>) IN
          /\ constructed' = constructed
          /\ Finish(r.map, r.calls,
                    Obs("addLibrary", "", <<>>, lib, TRUE, libMap, r, <<>>))

\* a library acquires a peer
CascadeAcquire ==
    /\ Ready
    /\ \E h \in DOMAIN libMap, libName \in DOMAIN libMap :
          /\ h # libName
          /\ libName \notin acquired[h]
          /\ libMap[libName].useCount < MaxUse
          /\ LET r == AcquireLibrary(libMap, libName) IN
             /\ libMap' = r.map
             /\ last' = Obs("acquireLibrary", libName, <<>>,
                            libMap[h].libInterface, FALSE, libMap, r, <<>>)
             /\ acquired' = [acquired EXCEPT ![h] = @ \cup {libName}]
    /\ last2' = NoOp
    /\ UNCHANGED <<constructed, destroyCalls, tally, unloading>>

\* the client calls releaseLibrary: the call returns at once, or it is
\* inside the destroy function of the library
CascadeRelease ==
    /\ Ready
    /\ \E libName \in Names :
          /\ Find(libMap, libName) =>
                libMap[libName].useCount > Cardinality(Holders(libName))
          /\ LET r == ReleaseEnter(libMap, libName) IN
             /\ libMap' = r.map
             /\ destroyCalls' = [i \in Instances |->
                                    destroyCalls[i] + Destroys(r.calls, i)]
             /\ last' = Obs("releaseLibrary", libName, <<>>, NULL, FALSE,
                            libMap, r, <<>>)
             /\ unloading' = IF Enters(libMap, libName)
                             THEN <<Frame(libName, libMap[libName].libInterface,
                                          acquired[libName])>>
                             ELSE <<>>
    /\ last2' = NoOp
    /\ UNCHANGED <<constructed, tally, acquired>>

\* the innermost running destroy function releases one of its peers; a
\* std::runtime_error thrown by that call ends all running calls
DestructorReleases ==
    /\ unloading # <<>>
    /\ LET top == unloading[Len(unloading)]
           below == SubSeq(unloading, 1, Len(unloading) - 1)
       IN  \E libName \in top.todo :
              LET r == ReleaseEnter(libMap, libName)
                  rest == Frame(top.name, top.inst, top.todo \ {libName})
              IN  /\ libMap' = r.map
                  /\ destroyCalls' = [i \in Instances |->
                                         destroyCalls[i] + Destroys(r.calls, i)]
                  /\ last' = [last EXCEPT
                                !.calls = @ \o <<ReleaseEv(libName,
                                                           r.ret = LIBMGR_NO_ERROR)>>
                                            \o r.calls,
                                !.fault = @ \/ r.fault]
                  /\ acquired' = [acquired EXCEPT ![top.name] = @ \ {libName}]
                  /\ unloading' =
                        IF r.fault THEN <<>>
                        ELSE IF Enters(libMap, libName)
                        THEN below \o <<rest, Frame(libName,
                                                    libMap[libName].libInterface,
                                                    acquired[libName])>>
                        ELSE below \o <<rest>>
    /\ UNCHANGED <<constructed, last2, tally>>

\* the innermost destroy function returns: unloadLibrary erases the record
DestructorReturns ==
    /\ unloading # <<>>
    /\ LET top == unloading[Len(unloading)] IN
       /\ top.todo = {}
       /\ libMap' = UnloadEnd(libMap, top.name)
       /\ unloading' = SubSeq(unloading, 1, Len(unloading) - 1)
    /\ UNCHANGED <<constructed, destroyCalls, last, last2, tally, acquired>>

NextCascade ==
    \/ CascadeRegister
    \/ CascadeAcquire
    \/ CascadeRelease
    \/ DestructorReleases
    \/ DestructorReturns
    \/ Return

SpecCascade == Init /\ [][NextCascade]_vars

\* ------------------------------------------- clearLibraries on any map
\* clearLibraries() and ~LibManager() applied to every map of up to three
\* records with use counts from 0 to MaxUse.  A record with useCount 0 is
\* in the map while its library is being unloaded, which is when the
\* test of line 103 succeeds.
Records(n) ==
    {[libStruct(i) EXCEPT !.destroy = d, !.useCount = u] :
        i \in {j \in Instances : getLibName(j) = n}, d \in BOOLEAN, u \in 0..MaxUse}

AnyMaps ==
    UNION {{m \in [S -> UNION {Records(n) : n \in Names}] :
               \A k \in S : m[k] \in Records(k)} : S \in SUBSET Names}

InitClear ==
    /\ libMap \in AnyMaps
    /\ constructed = TRUE
    /\ destroyCalls = [i \in Instances |-> 0]
    /\ last = NoOp
    /\ last2 = NoOp
    /\ tally = NoTally
    /\ acquired = NoneAcquired
    /\ unloading = <<>>

NextClear ==
    \/ ClearLibrariesCall
    \/ DestructorCall
    \/ Return

SpecClear == InitClear /\ [][NextClear]_vars

\* ============================================================== claims
\* helpers over the observation of an operation
CallsOf(calls, fn) == {j \in 1..Len(calls) : calls[j].fn = fn}
NoDestroy(calls) == CallsOf(calls, "destroy") = {}
NoNotify(calls) == CallsOf(calls, "newLibLoaded") = {}

\* C1: for a registered name n, acquire(n) immediately followed by
\* release(n) leaves useCount(n) at its value before the acquire, keeps n
\* registered, runs no destroy function and leaves every other record as
\* it was.
C1_AcquireReleaseRestores ==
    (/\ last.op = "releaseLibrary"
     /\ last2.op = "acquireLibrary"
     /\ Find(last2.pre, last2.name))
    => /\ Find(libMap, last.name)
       /\ libMap[last.name].useCount = last2.pre[last.name].useCount
       /\ libMap = last2.pre
       /\ NoDestroy(last2.calls) /\ NoDestroy(last.calls)
       /\ last2.handle = last2.pre[last.name].libInterface
       /\ last.ret = LIBMGR_NO_ERROR

C1_Witness ==
    /\ last.op = "releaseLibrary"
    /\ last2.op = "acquireLibrary"
    /\ Find(last2.pre, last2.name)
    /\ Cardinality(DOMAIN libMap) = 2

\* C2: addLibrary with an instance whose name is already registered returns
\* LIBMGR_ERR_LIBNAME_EXISTS, leaves the map (the first record's instance,
\* destroy function, path and useCount, and the set of names) unchanged and
\* sends no newLibLoaded.
C2_NameConflictKeepsFirst ==
    (/\ last.op = "addLibrary"
     /\ last.inst # NULL
     /\ Find(last.pre, getLibName(last.inst)))
    => /\ last.ret = LIBMGR_ERR_LIBNAME_EXISTS
       /\ libMap = last.pre
       /\ NoNotify(last.calls)
       /\ NoDestroy(last.calls)

C2_Witness ==
    /\ last.op = "addLibrary"
    /\ last.inst # NULL
    /\ Find(last.pre, getLibName(last.inst))
    /\ last.pre[getLibName(last.inst)].libInterface # last.inst
    /\ Cardinality(DOMAIN last.pre) = 2

\* C3: a release that takes useCount from 1 to 0 runs the record's destroy
\* function (when it has one) exactly once and erases the record; no destroy
\* function ever runs a second time on an instance; and release, acquire and
\* unload on a name that is not in the map return LIBMGR_ERR_NO_LIBRARY
\* (acquire: NULL).
C3_ZeroCrossingDestroysOnce ==
    /\ (/\ last.op = "releaseLibrary"
        /\ Find(last.pre, last.name)
        /\ last.pre[last.name].useCount = 1)
       => /\ ~Find(libMap, last.name)
          /\ Erase(last.pre, last.name) = libMap
          /\ Len(last.calls) = (IF last.pre[last.name].destroy THEN 1 ELSE 0)
          /\ Destroys(last.calls, last.pre[last.name].libInterface)
                = (IF last.pre[last.name].destroy THEN 1 ELSE 0)
          /\ last.ret = LIBMGR_NO_ERROR
    /\ \A i \in Instances : destroyCalls[i] <= 1
    /\ (/\ last.op \in {"releaseLibrary", "unloadLibrary", "acquireLibrary"}
        /\ last2.op = "releaseLibrary"
        /\ Find(last2.pre, last2.name)
        /\ last2.pre[last2.name].useCount = 1)
       => /\ (last.op # "acquireLibrary" => last.ret = LIBMGR_ERR_NO_LIBRARY)
          /\ (last.op = "acquireLibrary" => last.handle = NULL)
          /\ NoDestroy(last.calls)
          /\ ~last.fault

\* a release destroyed a library, and the same name was then released again
C3_Witness ==
    /\ last.op = "releaseLibrary"
    /\ last2.op = "releaseLibrary"
    /\ Find(last2.pre, last2.name)
    /\ last2.pre[last2.name].destroy
    /\ destroyCalls[last2.pre[last2.name].libInterface] = 1

C5_PeersNotifiedOnce ==
    last.op \in {"addLibrary", "loadLibrary"}
    => IF DOMAIN libMap # DOMAIN last.pre
       THEN \E n \in (DOMAIN libMap) \ (DOMAIN last.pre) :
               /\ DOMAIN libMap = (DOMAIN last.pre) \cup {n}
               /\ \A k \in DOMAIN last.pre :
                     Cardinality({j \in CallsOf(last.calls, "newLibLoaded") :
                                     /\ last.calls[j].inst = last.pre[k].libInterface
                                     /\ last.calls[j].arg = n}) = 1
               /\ Cardinality(CallsOf(last.calls, "newLibLoaded"))
                     = Cardinality(DOMAIN last.pre)
               /\ \A j \in CallsOf(last.calls, "newLibLoaded") :
                     last.calls[j].inst # libMap[n].libInterface
               /\ (last.op = "addLibrary" => last.ret = LIBMGR_NO_ERROR)
       ELSE /\ NoNotify(last.calls)
            /\ (last.op = "addLibrary" => last.ret # LIBMGR_NO_ERROR)

\* a load that registered a library while two others were registered
C5_Witness ==
    /\ last.op = "loadLibrary"
    /\ DOMAIN libMap # DOMAIN last.pre
    /\ Cardinality(DOMAIN last.pre) = 2
    /\ Cardinality(CallsOf(last.calls, "newLibLoaded")) = 2

\* the release before the last one took the name's useCount from 1 to 0, so
\* the last release is one more than the references that were outstanding
ExcessRelease ==
    /\ last.op = "releaseLibrary"
    /\ last2.op = "releaseLibrary"
    /\ Find(last2.pre, last2.name)
    /\ last2.pre[last2.name].useCount = 1

\* C6 (as claimed): a release beyond the outstanding references of a name
\* that has been registered ends in the fatal use-count fault instead of
\* returning an error code.
C6_ExcessReleaseFaults ==
    ExcessRelease => last.fault

\* C6 (amended): a release beyond the outstanding references, made after the
\* release that consumed the last reference has returned, finds the record
\* already erased: it returns LIBMGR_ERR_NO_LIBRARY, raises no fault, runs no
\* destroy function and leaves the map unchanged.
C6_ExcessReleaseNotFound ==
    ExcessRelease
    => /\ last.ret = LIBMGR_ERR_NO_LIBRARY
       /\ ~last.fault
       /\ last.calls = <<>>
       /\ libMap = last.pre
       /\ ~Find(libMap, last.name)

C6_Witness ==
    /\ ExcessRelease
    /\ last.ret = LIBMGR_ERR_NO_LIBRARY
    /\ libMap # EmptyMap

\* C7: no record ever has a negative useCount, and no operation raises the
\* use-count fault (in particular none of a sequence whose releases are all
\* matched by earlier acquires).
C7_UseCountNeverNegative ==
    /\ \A k \in DOMAIN libMap : libMap[k].useCount >= 0
    /\ ~last.fault

\* a release that gave back an acquired reference and left the record in place
C7_Witness ==
    /\ last.op = "releaseLibrary"
    /\ last.ret = LIBMGR_NO_ERROR
    /\ Find(libMap, last.name)
    /\ libMap[last.name].useCount = 1

\* C8: acquire, release and unload of a name that is not in the map return
\* the not-found outcome (LIBMGR_ERR_NO_LIBRARY, for acquire NULL), raise no
\* fault, and leave every record and every useCount unchanged.
C8_UnknownNameNotFound ==
    (/\ last.op \in {"acquireLibrary", "releaseLibrary", "unloadLibrary"}
     /\ ~Find(last.pre, last.name))
    => /\ (last.op = "acquireLibrary" => last.handle = NULL)
       /\ (last.op # "acquireLibrary" => last.ret = LIBMGR_ERR_NO_LIBRARY)
       /\ ~last.fault
       /\ last.calls = <<>>
       /\ libMap = last.pre

\* a release of a name that is absent while another library is registered
C8_Witness ==
    /\ last.op = "releaseLibrary"
    /\ ~Find(last.pre, last.name)
    /\ last.pre # EmptyMap
    /\ last2.op = "none"

\* the instance a loadLibrary call obtained from the factory (NULL if none)
Created(calls) ==
    LET made == CallsOf(calls, "create_c") \cup CallsOf(calls, "config_create_c")
    IN  IF made = {} THEN NULL ELSE calls[CHOOSE j \in made : TRUE].inst

\* C9: when loadLibrary has created an instance and registering it fails
\* because its name is already registered, the destroy function runs exactly
\* once on the new instance, the registered library of that name is neither
\* destroyed nor changed, and loadLibrary returns the registration error.
C9_LoadConflictPropagatesError ==
    (/\ last.op = "loadLibrary"
     /\ Created(last.calls) # NULL
     /\ Find(last.pre, getLibName(Created(last.calls))))
    => /\ Destroys(last.calls, Created(last.calls)) = 1
       /\ Cardinality(CallsOf(last.calls, "destroy")) = 1
       /\ libMap = last.pre
       /\ last.ret = LIBMGR_ERR_LIBNAME_EXISTS

\* the loader calls of a loadLibrary that did not succeed
LoaderFailed(calls) ==
    \E j \in 1..Len(calls) :
       /\ calls[j].fn \in {"intern_loadLib", "getFunc", "create_c", "config_create_c"}
       /\ ~calls[j].ok

\* C10: loadLibrary returns LIBMGR_ERR_NOT_ABLE_TO_LOAD and leaves the map
\* unchanged whenever the image does not open, destroy_c is missing, the
\* required factory is missing or the factory returns no instance; a factory
\* is called only after destroy_c was resolved; and the factory looked up and
\* called is create_c without a config and config_create_c with one.
C10_LoadFailures ==
    last.op = "loadLibrary"
    => /\ last.calls # <<>> /\ last.calls[1].fn = "intern_loadLib"
       /\ LoaderFailed(last.calls)
          => /\ last.ret = LIBMGR_ERR_NOT_ABLE_TO_LOAD
             /\ libMap = last.pre
             /\ \A j \in 1..Len(last.calls) :
                   /\ last.calls[j].fn \in {"intern_loadLib", "getFunc",
                                            "create_c", "config_create_c"}
                   /\ ~last.calls[j].ok => j = Len(last.calls)
       /\ \A j \in 1..Len(last.calls) :
             last.calls[j].fn \in {"create_c", "config_create_c"}
             => /\ \E d \in 1..(j - 1) :
                      /\ last.calls[d] = Ev("getFunc", NULL, "destroy_c", TRUE)
                /\ last.calls[j - 1] = Ev("getFunc", NULL, last.calls[j].fn, TRUE)
                /\ last.calls[j].fn =
                      (IF last.flag THEN "config_create_c" ELSE "create_c")
       /\ \A j \in CallsOf(last.calls, "getFunc") :
             last.calls[j].arg \in
                {"destroy_c", IF last.flag THEN "config_create_c" ELSE "create_c"}

\* a load where destroy_c resolved and the required factory was missing,
\* made while a library is registered
C10_Witness ==
    /\ last.op = "loadLibrary"
    /\ last.pre # EmptyMap
    /\ last.flag
    /\ Len(last.calls) = 3
    /\ last.calls[3] = Ev("getFunc", NULL, "config_create_c", FALSE)

\* ------------------------------------------------------------------ C11
\* the records clearLibraries() or ~LibManager() took out of the map
Removed == DOMAIN last.pre \ DOMAIN libMap

RECURSIVE ReleaseEach(_, _)
ReleaseEach(m, list) ==
    IF list = <<>>
    THEN Res(m, "", NULL, FALSE, <<>>)
    ELSE LET r == ReleaseLibrary(m, getLibName(Head(list).inst))
             rest == ReleaseEach(r.map, Tail(list))
         IN  Res(rest.map, rest.ret, NULL, r.fault \/ rest.fault,
                 r.calls \o rest.calls)

\* C12: getAllLibraries() returns one handle per record, the handles of
\* the records in map order, adds exactly 1 to every useCount and neither
\* adds nor removes a record; releasing every returned library once
\* afterwards gives back the map as it was before the call, with no
\* destroy call and no exception.  getAllLibraryNames() returns the names
\* in map order and changes nothing.
C12_ListAllAcquiresEach ==
    /\ last.op = "getAllLibraries" =>
          /\ DOMAIN libMap = DOMAIN last.pre
          /\ \A k \in DOMAIN last.pre :
                libMap[k] = [last.pre[k] EXCEPT !.useCount = @ + 1]
          /\ Len(last.list) = Cardinality(DOMAIN last.pre)
          /\ \A j \in 1..Len(last.list) :
                last.list[j].inst = last.pre[Keys(last.pre)[j]].libInterface
          /\ LET back == ReleaseEach(libMap, last.list) IN
                /\ back.map = last.pre
                /\ back.calls = <<>>
                /\ ~back.fault
    /\ last.op = "getAllLibraryNames" =>
          /\ libMap = last.pre
          /\ Len(last.list) = Cardinality(DOMAIN last.pre)
          /\ \A j \in 1..Len(last.list) :
                last.list[j].name = Keys(last.pre)[j]

\* getAllLibraries() on a map of three records
C12_Witness ==
    /\ last.op = "getAllLibraries"
    /\ Len(last.list) = 3
    /\ \A k \in DOMAIN libMap : libMap[k].useCount = 2

NotFound == ReleaseLibrary(EmptyMap, NameSeq[1]).ret

\* C13: addLibrary(NULL) fails with an error number that is not the one
\* reported for an unknown name, inserts no record, changes no useCount
\* and notifies nobody.
C13_NullInstanceOwnError ==
    (last.op = "addLibrary" /\ last.inst = NULL) =>
        /\ last.ret # LIBMGR_NO_ERROR
        /\ last.ret # NotFound
        /\ libMap = last.pre
        /\ last.calls = <<>>

\* ------------------------------------------------------------------ C14
\* the calls addLibrary() made on the instance it was given
OnNewInstance == {j \in 1..Len(last.calls) : last.calls[j].inst = last.inst}

\* C14: an addLibrary() that returns LIBMGR_ERR_LIBNAME_EXISTS has called
\* nothing on the new instance but getLibName(): no state-changing method
\* and no destroy function.
C14_ConflictLeavesInstanceUntouched ==
    (last.op = "addLibrary" /\ last.ret = LIBMGR_ERR_LIBNAME_EXISTS) =>
        /\ \A j \in OnNewInstance : last.calls[j].fn = "getLibName"
        /\ destroyCalls[last.inst] = 0

\* ------------------------------------------------------------------ C15
\* the positions of a separating character c in a string, and the pieces
\* between consecutive separators, empty ones included
SepAt(str, c) == {j \in 1..Len(str) : str[j] = c}
Cut(str, c, k) ==
    IF k = 0 THEN 0
    ELSE IF k > Cardinality(SepAt(str, c)) THEN Len(str) + 1
    ELSE CHOOSE j \in SepAt(str, c) :
            Cardinality({i \in SepAt(str, c) : i < j}) = k - 1
Pieces(str, c) ==
    [k \in 1..(Cardinality(SepAt(str, c)) + 1) |->
        SubSeq(str, Cut(str, c, k - 1) + 1, Cut(str, c, k) - 1)]
\* the directories of a search list
Directories(value) == Pieces(value, sep)

\* the reference resolution: the location, and how many directories of the
\* list have to be looked into to find it
Reference(libPath, env) ==
    LET decorated == prefix \o libPath \o suffix
        dirs == IF env.isSet THEN Directories(env.value) ELSE <<>>
        hits == {k \in 1..Len(dirs) :
                    dirs[k] \o <<"/">> \o decorated \in env.files}
        first == CHOOSE k \in hits : \A h \in hits : k <= h
    IN  IF libPath \in env.files THEN [location |-> libPath, probed |-> 0]
        ELSE IF hits = {} THEN [location |-> decorated, probed |-> Len(dirs)]
        ELSE [location |-> dirs[first] \o <<"/">> \o decorated, probed |-> first]

\* C15: the file path loadLibrary() hands to the loader is the reference
\* resolution of its argument: the argument itself when a file can be
\* opened there; else directory + "/" + prefix + argument + suffix for the
\* first directory of the search list holding that file; else
\* prefix + argument + suffix.  After the argument itself only the
\* directories up to the first hit are looked into, in list order.
C15_ResolvedPathIsReference ==
    last.op = "loadLibrary" =>
        LET ref == Reference(last.path, last.env)
            tested == TestedFiles(last.path, last.env)
        IN  /\ last.calls[1].fn = "intern_loadLib"
            /\ last.calls[1].path = ref.location
            /\ Len(tested) = 1 + ref.probed
            /\ \A k \in 1..ref.probed :
                  tested[1 + k] = Directories(last.env.value)[k] \o <<"/">>
                                      \o prefix \o last.path \o suffix

\* a search list of three directories, the first of them empty, with the
\* decorated file in the second and in the third: the second is taken
C15_Witness ==
    /\ last.op = "loadLibrary"
    /\ last.env.isSet
    /\ last.env.value = <<sep, "a", sep, "b">>
    /\ last.env.files = {<<"a", "/">> \o prefix \o last.path \o suffix,
                         <<"b", "/">> \o prefix \o last.path \o suffix}
    /\ last.calls[1].path = <<"a", "/">> \o prefix \o last.path \o suffix

\* ------------------------------------------------------------------ C16
\* a line without its leading and trailing whitespace
RECURSIVE Trimmed(_)
Trimmed(line) ==
    IF line = <<>> THEN line
    ELSE IF Head(line) \in whitespace THEN Trimmed(Tail(line))
    ELSE IF line[Len(line)] \in whitespace
    THEN Trimmed(SubSeq(line, 1, Len(line) - 1))
    ELSE line

\* the lines of a text that name a library: neither blank nor a comment
Wanted(text) ==
    SelectSeq([k \in 1..Len(Pieces(text, "\n")) |-> Trimmed(Pieces(text, "\n")[k])],
              LAMBDA line : line # <<>> /\ line[1] # "#")

\* the arguments of the loadLibrary() calls made, in order
Attempts ==
    LET loads == SelectSeq(last.calls, LAMBDA e : e.fn = "loadLibrary") IN
    [k \in 1..Len(loads) |-> loads[k].path]

\* C16: loadConfigFile() on a file that opens calls loadLibrary() exactly
\* once for every line of the file that, without its leading and trailing
\* whitespace, is not empty and does not start with '#', with that trimmed
\* line as argument and in the order of the file, and for no other line;
\* that a library fails to load does not stop the calls for later lines.
C16_OneAttemptPerLine ==
    (last.op = "loadConfigFile" /\ last.flag) => Attempts = Wanted(last.text)

\* ------------------------------------------------------------------ C17
\* C17: dumpTo() on a file that cannot be opened returns to its caller
\* without a fault, passes no invalid FILE* to fprintf or fclose, and
\* leaves the map as it was.
C17_DumpToUnopenableIsHarmless ==
    (last.op = "dumpTo" /\ ~last.flag) =>
        /\ last.ret # STOPPED
        /\ ~last.fault
        /\ \A j \in 1..Len(last.calls) :
              last.calls[j].fn \in {"fprintf", "fclose"} => last.calls[j].ok
        /\ libMap = last.pre

\* ------------------------------------------------------------------ C18
\* the objects of a given name on which a destroy function has been run
DestroyedOf(n) == {i \in Instances : getLibName(i) = n /\ destroyCalls[i] > 0}

\* C18: for a client that has loaded two different libraries from a
\* configuration of two lines: both are in the map with useCount 1; once
\* it has acquired a library twice the useCount is 3; once it has then
\* released it twice the useCount is 1 and no destroy function has been
\* called; its third release calls the library's destroy function exactly
\* once and removes the record; when this is done for both, the map is
\* empty and dumpTo() writes no library entry and exactly one entry for
\* the C++ runtime.
C18_EndToEnd ==
    /\ \A n \in NamesOfTwo :
          tally[n].load = 1 =>
              /\ tally[n].acq = 0 =>
                    Find(libMap, n) /\ libMap[n].useCount = 1
              /\ (tally[n].acq = 2 /\ tally[n].rel = 0) =>
                    Find(libMap, n) /\ libMap[n].useCount = 3
              /\ (tally[n].acq = 2 /\ tally[n].rel = 2) =>
                    /\ Find(libMap, n) /\ libMap[n].useCount = 1
                    /\ DestroyedOf(n) = {}
              /\ tally[n].rel < 3 => DestroyedOf(n) = {}
              /\ tally[n].rel = 3 =>
                    /\ ~Find(libMap, n)
                    /\ \E i \in Instances :
                          DestroyedOf(n) = {i} /\ destroyCalls[i] = 1
    /\ (\A n \in NamesOfTwo : tally[n].rel = 3) =>
          /\ libMap = EmptyMap
          /\ (last.op = "dumpTo" /\ last.flag) =>
                last.list = <<Item(stdlibInfo, NULL, 0)>>

\* the dump at the end of the scenario
C18_Witness ==
    /\ \A n \in NamesOfTwo :
          tally[n].load = 1 /\ tally[n].acq = 2 /\ tally[n].rel = 3
    /\ last.op = "dumpTo"
    /\ last.flag
    /\ Len(last.list) = 1
    /\ \A i \in 1..2 : destroyCalls[i] = 1

\* ------------------------------------------------------------------ C19
\* C19: a file whose only line names a library has that line loaded whole
\* by one loadLibrary() call, however long the line is.
C19_LongLineLoadedWhole ==
    (/\ last.op = "loadConfigFile" /\ last.flag
     /\ Len(Wanted(last.text)) = 1
     /\ Len(Pieces(last.text, "\n")) <= 2
     /\ Len(Pieces(last.text, "\n")) = 2 => Pieces(last.text, "\n")[2] = <<>>)
        => Attempts = <<Trimmed(Pieces(last.text, "\n")[1])>>

\* the calls are as C16 and C19 say whenever every line of the file, its
\* newline included, fits the buffer of maxChars - 1 characters
LinesFit ==
    \A k \in 1..Len(Pieces(last.text, "\n")) :
        Len(Pieces(last.text, "\n")[k]) +
            (IF k < Len(Pieces(last.text, "\n")) THEN 1 ELSE 0) <= maxChars - 1
AttemptsOfFittingLines ==
    (last.op = "loadConfigFile" /\ last.flag /\ LinesFit)
        => Attempts = Wanted(last.text)

\* ------------------------------------------------------------------ C21
\* the releaseLibrary calls made on a name during the release observed in
\* last: the client's own, and those of the destroy functions
ReleasesOn(k) ==
    (IF last.name = k THEN 1 ELSE 0)
    + Cardinality({j \in 1..Len(last.calls) :
                      /\ last.calls[j].fn = "releaseLibrary"
                      /\ last.calls[j].arg = k
                      /\ last.calls[j].ok})

====
